---- MODULE Spec2Model ----
(***************************************************************************)
(* A model of SelfObjectModel.py: prototype objects with slots, parent     *)
(* slots, a message script and a primitive value / primitive function.     *)
(*                                                                         *)
(* Python objects, dicts and lists are reference values.  The model keeps  *)
(* an arena for each: objs (SelfObjectModel instances), dicts (the         *)
(* `slots` mappings), plists (the `parent_slots` lists) and mlists (the    *)
(* `messages` lists).  An object holds the indices of its containers, so   *)
(* that two objects sharing one container is a state the model can         *)
(* express, and id(obj) is the object's index in objs.                     *)
(***************************************************************************)
EXTENDS Integers, Sequences, FiniteSets, TLC

VARIABLES objs, dicts, plists, mlists, last, steps, origin, bornPlain, overwritten

vars == <<objs, dicts, plists, mlists, last, steps, origin, bornPlain, overwritten>>

(* objs, dicts, plists, mlists: the arenas.  last: the host's last call.   *)
(* steps: the number of calls made.  History of the run, read by the       *)
(* properties only: origin[i] is the object that object i was copied from  *)
(* (Nil when it was constructed), bornPlain the objects made with an empty *)
(* parent_slots list, overwritten the objects on which an assign_slot      *)
(* replaced the Object of an existing slot by another.                     *)

(* Python's None: as a primitive_value / primitive_function, and as an     *)
(* object reference (object indices start at 1).                           *)
None == "None"
Nil == 0

(* Slot and message names the host uses.                                   *)
Names == {"k", "parameter"}

(* Primitive payloads the host uses, written as Python writes them: the    *)
(* number 0, a payload that is set but falsy, and the string hi.           *)
PrimValues == {"0", "hi"}

(* Primitive functions the host supplies.                                  *)
PrimFunctions == {"echo"}

(* ---- bounds ----------------------------------------------------------- *)
MaxObjs == 8
MaxMutations == 2
MaxCalls == 1
MaxDepth == 2
NumNodes == 4
MaxEdges == 3

(* Iterations of the lookup loop after which the model reports that the    *)
(* loop did not end.  A queue entry is one object or one parent entry.     *)
LookupFuel == 2 + 2 * (MaxObjs + MaxEdges + MaxMutations)

(* ---- the store -------------------------------------------------------- *)
Store == [objs |-> objs, dicts |-> dicts, plists |-> plists, mlists |-> mlists]

EmptyDict == [n \in {} |-> Nil]

Range(s) == {s[i] : i \in DOMAIN s}

SlotsOf(st, o) == st.dicts[st.objs[o].slots]

ParentsOf(st, o) == st.plists[st.objs[o].parent_slots]

MessagesOf(st, o) == st.mlists[st.objs[o].messages]

(* ---- __init__ --------------------------------------------------------- *)
(* `slots or {}`: the dict passed in is kept by reference unless it is     *)
(* None or empty, and then a new empty dict is made.                       *)
OrDict(st, s) ==
    IF s = Nil \/ DOMAIN st.dicts[s] = {}
    THEN [st |-> [st EXCEPT !.dicts = Append(@, EmptyDict)], id |-> Len(st.dicts) + 1]
    ELSE [st |-> st, id |-> s]

OrPList(st, p) ==
    IF p = Nil \/ st.plists[p] = <<>>
    THEN [st |-> [st EXCEPT !.plists = Append(@, <<>>)], id |-> Len(st.plists) + 1]
    ELSE [st |-> st, id |-> p]

OrMList(st, m) ==
    IF m = Nil \/ st.mlists[m] = <<>>
    THEN [st |-> [st EXCEPT !.mlists = Append(@, <<>>)], id |-> Len(st.mlists) + 1]
    ELSE [st |-> st, id |-> m]

(* SelfObjectModel(slots, parent_slots, messages, primitive_value,        *)
(* primitive_function): the arguments are container references or Nil.     *)
New(st, s, p, m, pv, pf) ==
    LET a == OrDict(st, s)
        b == OrPList(a.st, p)
        c == OrMList(b.st, m)
        ob == [slots |-> a.id, parent_slots |-> b.id, messages |-> c.id,
               primitive_value |-> pv, primitive_function |-> pf]
    IN  [st |-> [c.st EXCEPT !.objs = Append(@, ob)], id |-> Len(st.objs) + 1]

(* ---- copy ------------------------------------------------------------- *)
(* dict.copy() and list.copy(): a new container with the same entries.     *)
DictCopy(st, d) ==
    [st |-> [st EXCEPT !.dicts = Append(@, st.dicts[d])], id |-> Len(st.dicts) + 1]

PListCopy(st, p) ==
    [st |-> [st EXCEPT !.plists = Append(@, st.plists[p])], id |-> Len(st.plists) + 1]

MListCopy(st, m) ==
    [st |-> [st EXCEPT !.mlists = Append(@, st.mlists[m])], id |-> Len(st.mlists) + 1]

(* copy() handing its own containers to the new object.                    *)
copy_alias(st, self) ==
    LET ob == st.objs[self]
    IN  New(st, ob.slots, ob.parent_slots, ob.messages, ob.primitive_value,
            ob.primitive_function)

(* copy() leaving parent_slots out of the new object.                      *)
copy_noparents(st, self) ==
    LET ob == st.objs[self]
        a == DictCopy(st, ob.slots)
        c == MListCopy(a.st, ob.messages)
    IN  New(c.st, a.id, Nil, c.id, ob.primitive_value, ob.primitive_function)

copy(st, self) ==
    LET ob == st.objs[self]
        a == DictCopy(st, ob.slots)
        b == PListCopy(a.st, ob.parent_slots)
        c == MListCopy(b.st, ob.messages)
    IN  New(c.st, a.id, b.id, c.id, ob.primitive_value, ob.primitive_function)

(* ---- assign_slot, make_parent, assign_parent_slot --------------------- *)
DictSet(d, name, obj) ==
    [n \in (DOMAIN d) \cup {name} |-> IF n = name THEN obj ELSE d[n]]

assign_slot(st, self, name, obj) ==
    [st EXCEPT !.dicts[st.objs[self].slots] = DictSet(@, name, obj)]

(* make_parent appending slots.get(name) before it tests the name.         *)
make_parent_partial(st, self, name) ==
    LET found == name \in DOMAIN SlotsOf(st, self)
        entry == IF found THEN SlotsOf(st, self)[name] ELSE Nil
    IN  [st |-> [st EXCEPT !.plists[st.objs[self].parent_slots] = Append(@, entry)],
         status |-> IF found THEN "ok" ELSE "SlotNotFound"]

(* make_parent moving the Object out of slots (slots.pop(name)).           *)
make_parent_moves(st, self, name) ==
    IF name \in DOMAIN SlotsOf(st, self)
    THEN [st |-> [st EXCEPT !.plists[st.objs[self].parent_slots] =
                                Append(@, SlotsOf(st, self)[name]),
                            !.dicts[st.objs[self].slots] =
                                [n \in (DOMAIN @) \ {name} |-> @[n]]],
          status |-> "ok"]
    ELSE [st |-> st, status |-> "SlotNotFound"]

(* status "ok", or "SlotNotFound" for the ValueError of line 64.           *)
make_parent(st, self, name) ==
    IF name \in DOMAIN SlotsOf(st, self)
    THEN [st |-> [st EXCEPT !.plists[st.objs[self].parent_slots] =
                                Append(@, SlotsOf(st, self)[name])],
          status |-> "ok"]
    ELSE [st |-> st, status |-> "SlotNotFound"]

assign_parent_slot(st, self, name, obj) ==
    make_parent(assign_slot(st, self, name, obj), self, name)

(* ---- _bfs_lookup ------------------------------------------------------ *)
(* The while loop of _bfs_lookup.  order is the sequence of objects the    *)
(* loop took past the visited test, iters the number of iterations made;   *)
(* fuel bounds the iterations so that a loop that does not end is a        *)
(* result ("diverged") instead of an evaluation that does not end.         *)
RECURSIVE bfs_loop(_, _, _, _, _, _, _)

(* The loop taking the parents before the rest of the queue (a stack).     *)
bfs_loop_depthfirst(st, queue, visited, order, iters, fuel, message) ==
    IF queue = <<>>
    THEN [status |-> "absent", target |-> Nil, holder |-> Nil, order |-> order, iters |-> iters]
    ELSE IF fuel = 0
    THEN [status |-> "diverged", target |-> Nil, holder |-> Nil, order |-> order, iters |-> iters]
    ELSE LET current == Head(queue)
             rest == Tail(queue)
         IN  IF current \in visited
             THEN bfs_loop(st, rest, visited, order, iters + 1, fuel - 1, message)
             ELSE LET visited1 == visited \cup {current}
                      order1 == Append(order, current)
                      slots == SlotsOf(st, current)
                      ps == ParentsOf(st, current)
                  IN  IF message \in DOMAIN slots
                      THEN [status |-> "found", target |-> slots[message],
                            holder |-> current, order |-> order1, iters |-> iters + 1]
                      ELSE bfs_loop(st, SelectSeq(ps, LAMBDA p : p \notin visited1) \o rest,
                                    visited1, order1, iters + 1, fuel - 1, message)

(* The loop without the visited set.                                       *)
bfs_loop_unguarded(st, queue, visited, order, iters, fuel, message) ==
    IF queue = <<>>
    THEN [status |-> "absent", target |-> Nil, holder |-> Nil, order |-> order, iters |-> iters]
    ELSE IF fuel = 0
    THEN [status |-> "diverged", target |-> Nil, holder |-> Nil, order |-> order, iters |-> iters]
    ELSE LET current == Head(queue)
             rest == Tail(queue)
             order1 == Append(order, current)
             slots == SlotsOf(st, current)
             ps == ParentsOf(st, current)
         IN  IF message \in DOMAIN slots
             THEN [status |-> "found", target |-> slots[message],
                   holder |-> current, order |-> order1, iters |-> iters + 1]
             ELSE bfs_loop(st, rest \o ps, visited, order1, iters + 1, fuel - 1, message)

bfs_loop(st, queue, visited, order, iters, fuel, message) ==
    IF queue = <<>>
    THEN [status |-> "absent", target |-> Nil, holder |-> Nil, order |-> order, iters |-> iters]
    ELSE IF fuel = 0
    THEN [status |-> "diverged", target |-> Nil, holder |-> Nil, order |-> order, iters |-> iters]
    ELSE LET current == Head(queue)
             rest == Tail(queue)
         IN  IF current \in visited
             THEN bfs_loop(st, rest, visited, order, iters + 1, fuel - 1, message)
             ELSE LET visited1 == visited \cup {current}
                      order1 == Append(order, current)
                      slots == SlotsOf(st, current)
                      ps == ParentsOf(st, current)
                  IN  IF message \in DOMAIN slots
                      THEN [status |-> "found", target |-> slots[message],
                            holder |-> current, order |-> order1, iters |-> iters + 1]
                      ELSE bfs_loop(st, rest \o SelectSeq(ps, LAMBDA p : p \notin visited1),
                                    visited1, order1, iters + 1, fuel - 1, message)

bfs_lookup(st, self, message) ==
    bfs_loop(st, <<self>>, {}, <<>>, 0, LookupFuel, message)

(* ---- primitive functions ---------------------------------------------- *)
(* echo(call_obj) returns call_obj.slots["parameter"]; a dict subscript    *)
(* with a missing key raises KeyError.                                     *)
ApplyPrim(f, st, call_obj) ==
    IF "parameter" \in DOMAIN SlotsOf(st, call_obj)
    THEN [st |-> st, status |-> "ok", result |-> SlotsOf(st, call_obj)["parameter"]]
    ELSE [st |-> st, status |-> "KeyError", result |-> Nil]

(* ---- evaluate, send_message ------------------------------------------- *)
(* What an evaluation did, in order: a copy (obj copied to other), a send  *)
(* (name sent to obj) or a call (function name applied to obj); d is the   *)
(* nesting depth of the evaluate() that did it.                            *)
Ev(kind, d, obj, other, name) ==
    [ev |-> kind, d |-> d, obj |-> obj, other |-> other, name |-> name]

RECURSIVE evaluate(_, _, _)
RECURSIVE send_message(_, _, _, _)
RECURSIVE run_messages(_, _, _, _, _, _, _)

(* The for loop of evaluate: messages[i..] are sent to obj_copy; a send    *)
(* that raises ends the loop and the evaluation.                           *)
run_messages(st, obj_copy, messages, i, result, depth, log) ==
    IF i > Len(messages)
    THEN [st |-> st, status |-> "ok", result |-> result, log |-> log]
    ELSE LET r == send_message(st, obj_copy, messages[i], depth + 1)
             log1 == (log \o <<Ev("send", depth, obj_copy, Nil, messages[i])>>) \o r.log
         IN  IF r.status # "ok"
             THEN [st |-> r.st, status |-> r.status, result |-> Nil, log |-> log1]
             ELSE run_messages(r.st, obj_copy, messages, i + 1, r.result, depth, log1)

(* evaluate testing primitive_function before messages.                    *)
evaluate_function_first(st, self, depth) ==
    IF depth > MaxDepth
    THEN [st |-> st, status |-> "RecursionError", result |-> Nil, log |-> <<>>]
    ELSE LET ob == st.objs[self]
             c == copy(st, self)
         IN  IF ob.primitive_function # None
             THEN LET r == ApplyPrim(ob.primitive_function, c.st, c.id)
                  IN  [st |-> r.st, status |-> r.status, result |-> r.result,
                       log |-> <<Ev("copy", depth, self, c.id, ""),
                                 Ev("call", depth, c.id, Nil, ob.primitive_function)>>]
             ELSE IF MessagesOf(st, self) # <<>>
             THEN run_messages(c.st, c.id, MessagesOf(st, self), 1, Nil, depth,
                               <<Ev("copy", depth, self, c.id, "")>>)
             ELSE IF ob.primitive_value # None
             THEN [st |-> c.st, status |-> "ok", result |-> c.id,
                   log |-> <<Ev("copy", depth, self, c.id, "")>>]
             ELSE [st |-> st, status |-> "ok", result |-> self, log |-> <<>>]

(* evaluate sending the messages to self, not to the copy.                 *)
evaluate_sends_to_self(st, self, depth) ==
    IF depth > MaxDepth
    THEN [st |-> st, status |-> "RecursionError", result |-> Nil, log |-> <<>>]
    ELSE LET ob == st.objs[self]
             c == copy(st, self)
         IN  IF MessagesOf(st, self) # <<>>
             THEN run_messages(c.st, self, MessagesOf(st, self), 1, Nil, depth,
                               <<Ev("copy", depth, self, c.id, "")>>)
             ELSE IF ob.primitive_function # None
             THEN LET r == ApplyPrim(ob.primitive_function, c.st, c.id)
                  IN  [st |-> r.st, status |-> r.status, result |-> r.result,
                       log |-> <<Ev("copy", depth, self, c.id, ""),
                                 Ev("call", depth, c.id, Nil, ob.primitive_function)>>]
             ELSE IF ob.primitive_value # None
             THEN [st |-> c.st, status |-> "ok", result |-> c.id,
                   log |-> <<Ev("copy", depth, self, c.id, "")>>]
             ELSE [st |-> st, status |-> "ok", result |-> self, log |-> <<>>]

(* depth counts the evaluate() calls on the stack; beyond MaxDepth the     *)
(* interpreter raises RecursionError.                                      *)
evaluate(st, self, depth) ==
    IF depth > MaxDepth
    THEN [st |-> st, status |-> "RecursionError", result |-> Nil, log |-> <<>>]
    ELSE LET ob == st.objs[self]
             c == copy(st, self)
         IN  IF MessagesOf(st, self) # <<>>
             THEN run_messages(c.st, c.id, MessagesOf(st, self), 1, Nil, depth,
                               <<Ev("copy", depth, self, c.id, "")>>)
             ELSE IF ob.primitive_function # None
             THEN LET r == ApplyPrim(ob.primitive_function, c.st, c.id)
                  IN  [st |-> r.st, status |-> r.status, result |-> r.result,
                       log |-> <<Ev("copy", depth, self, c.id, ""),
                                 Ev("call", depth, c.id, Nil, ob.primitive_function)>>]
             ELSE IF ob.primitive_value # None
             THEN [st |-> c.st, status |-> "ok", result |-> c.id,
                   log |-> <<Ev("copy", depth, self, c.id, "")>>]
             ELSE [st |-> st, status |-> "ok", result |-> self, log |-> <<>>]

(* send_message returning None for a name the lookup does not find.       *)
send_message_swallows(st, self, message, depth) ==
    LET lk == bfs_lookup(st, self, message)
    IN  IF lk.status # "found"
        THEN [st |-> st, status |-> "ok", result |-> Nil, log |-> <<>>]
        ELSE evaluate(st, lk.target, depth)

send_message(st, self, message, depth) ==
    LET lk == bfs_lookup(st, self, message)
    IN  IF lk.status # "found"
        THEN [st |-> st, status |-> "MessageNotFound", result |-> Nil, log |-> <<>>]
        ELSE evaluate(st, lk.target, depth)

(* send_message_with_parameters assigning the slot on the Object found.    *)
send_message_with_parameters_in_place(st, self, message, parameter, depth) ==
    LET lk == bfs_lookup(st, self, message)
        r == evaluate(assign_slot(st, lk.target, "parameter", parameter), lk.target, depth)
    IN  IF lk.status # "found"
        THEN [st |-> st, status |-> "MessageNotFound", result |-> Nil, log |-> <<>>]
        ELSE r

send_message_with_parameters(st, self, message, parameter, depth) ==
    LET lk == bfs_lookup(st, self, message)
        c == copy(st, lk.target)
        r == evaluate(assign_slot(c.st, c.id, "parameter", parameter), c.id, depth)
    IN  IF lk.status # "found"
        THEN [st |-> st, status |-> "MessageNotFound", result |-> Nil, log |-> <<>>]
        ELSE [r EXCEPT !.log = <<Ev("copy", depth, lk.target, c.id, "")>> \o @]

(* ---- the host's calls -------------------------------------------------- *)
Objects == 1 .. Len(objs)

NoLookup == [status |-> "none", target |-> Nil, holder |-> Nil, order |-> <<>>, iters |-> 0]

(* The record of the last call: its operation and arguments, how it ended  *)
(* (status "ok" or the error raised), what it returned, what the           *)
(* evaluation did and what the lookup of the call itself did.              *)
Call(op, recv, name, arg, status, result, log, lookup) ==
    [op |-> op, recv |-> recv, name |-> name, arg |-> arg, status |-> status,
     result |-> result, log |-> log, lookup |-> lookup]

Install(st) ==
    /\ objs' = st.objs
    /\ dicts' = st.dicts
    /\ plists' = st.plists
    /\ mlists' = st.mlists

(* Objects of st1 that st did not have and that were made with an empty    *)
(* parent_slots list.                                                      *)
BornPlain(st, st1) ==
    {i \in (Len(st.objs) + 1) .. Len(st1.objs) : ParentsOf(st1, i) = <<>>}

(* assign_slot(name, obj) on self replaces an entry by another Object.     *)
Overwrites(st, self, name, obj) ==
    /\ name \in DOMAIN SlotsOf(st, self)
    /\ SlotsOf(st, self)[name] # obj

(* The objects an evaluation copied, in the order it made the copies.      *)
CopySources(log) ==
    LET cs == SelectSeq(log, LAMBDA e : e.ev = "copy")
    IN  [j \in 1 .. Len(cs) |-> cs[j].obj]

Construct(pv, pf) ==
    LET n == New(Store, Nil, Nil, Nil, pv, pf)
    IN  /\ steps < MaxMutations
        /\ Len(objs) < MaxObjs
        /\ Install(n.st)
        /\ last' = Call("construct", n.id, "", Nil, "ok", n.id, <<>>, NoLookup)
        /\ steps' = steps + 1
        /\ origin' = Append(origin, Nil)
        /\ bornPlain' = bornPlain \cup BornPlain(Store, n.st)
        /\ UNCHANGED overwritten

Copy(o) ==
    LET c == copy(Store, o)
    IN  /\ steps < MaxMutations
        /\ Len(objs) < MaxObjs
        /\ Install(c.st)
        /\ last' = Call("copy", o, "", Nil, "ok", c.id, <<>>, NoLookup)
        /\ steps' = steps + 1
        /\ origin' = Append(origin, o)
        /\ bornPlain' = bornPlain \cup BornPlain(Store, c.st)
        /\ UNCHANGED overwritten

AssignSlot(o, name, x) ==
    /\ steps < MaxMutations
    /\ Install(assign_slot(Store, o, name, x))
    /\ last' = Call("assign_slot", o, name, x, "ok", Nil, <<>>, NoLookup)
    /\ steps' = steps + 1
    /\ overwritten' = IF Overwrites(Store, o, name, x) THEN overwritten \cup {o} ELSE overwritten
    /\ UNCHANGED <<origin, bornPlain>>

MakeParent(o, name) ==
    LET r == make_parent(Store, o, name)
    IN  /\ steps < MaxMutations
        /\ Install(r.st)
        /\ last' = Call("make_parent", o, name, Nil, r.status, Nil, <<>>, NoLookup)
        /\ steps' = steps + 1
        /\ UNCHANGED <<origin, bornPlain, overwritten>>

AssignParentSlot(o, name, x) ==
    LET r == assign_parent_slot(Store, o, name, x)
    IN  /\ steps < MaxMutations
        /\ Install(r.st)
        /\ last' = Call("assign_parent_slot", o, name, x, r.status, Nil, <<>>, NoLookup)
        /\ steps' = steps + 1
        /\ overwritten' = IF Overwrites(Store, o, name, x) THEN overwritten \cup {o} ELSE overwritten
        /\ UNCHANGED <<origin, bornPlain>>

Evaluate(o) ==
    LET r == evaluate(Store, o, 0)
    IN  /\ steps < MaxCalls
        /\ Len(r.st.objs) <= MaxObjs
        /\ Install(r.st)
        /\ last' = Call("evaluate", o, "", Nil, r.status, r.result, r.log, NoLookup)
        /\ steps' = steps + 1
        /\ origin' = origin \o CopySources(r.log)
        /\ bornPlain' = bornPlain \cup BornPlain(Store, r.st)
        /\ UNCHANGED overwritten

SendMessage(o, message) ==
    LET r == send_message(Store, o, message, 0)
    IN  /\ steps < MaxCalls
        /\ Len(r.st.objs) <= MaxObjs
        /\ Install(r.st)
        /\ last' = Call("send_message", o, message, Nil, r.status, r.result, r.log,
                        bfs_lookup(Store, o, message))
        /\ steps' = steps + 1
        /\ origin' = origin \o CopySources(r.log)
        /\ bornPlain' = bornPlain \cup BornPlain(Store, r.st)
        /\ UNCHANGED overwritten

SendMessageWithParameters(o, message, p) ==
    LET r == send_message_with_parameters(Store, o, message, p, 0)
        lk == bfs_lookup(Store, o, message)
    IN  /\ steps < MaxCalls
        /\ Len(r.st.objs) <= MaxObjs
        /\ Install(r.st)
        /\ last' = Call("send_message_with_parameters", o, message, p, r.status, r.result,
                        r.log, lk)
        /\ steps' = steps + 1
        /\ origin' = origin \o CopySources(r.log)
        /\ bornPlain' = bornPlain \cup BornPlain(Store, r.st)
        /\ overwritten' = IF lk.status = "found" /\ Overwrites(Store, lk.target, "parameter", p)
                          THEN overwritten \cup {Len(objs) + 1}
                          ELSE overwritten

(* ---- initial object graphs -------------------------------------------- *)
(* The store the host has after constructing Len(descs) objects, object i  *)
(* described by descs[i], each with containers of its own.                 *)
Desc(slots, parents, messages, pv, pf) ==
    [slots |-> slots, parents |-> parents, messages |-> messages, pv |-> pv, pf |-> pf]

BuildHeap(descs) ==
    [objs |-> [i \in DOMAIN descs |->
                 [slots |-> i, parent_slots |-> i, messages |-> i,
                  primitive_value |-> descs[i].pv, primitive_function |-> descs[i].pf]],
     dicts |-> [i \in DOMAIN descs |-> descs[i].slots],
     plists |-> [i \in DOMAIN descs |-> descs[i].parents],
     mlists |-> [i \in DOMAIN descs |-> descs[i].messages]]

Start(st) ==
    /\ objs = st.objs
    /\ dicts = st.dicts
    /\ plists = st.plists
    /\ mlists = st.mlists
    /\ last = Call("none", Nil, "", Nil, "ok", Nil, <<>>, NoLookup)
    /\ steps = 0
    /\ origin = [i \in DOMAIN st.objs |-> Nil]
    /\ bornPlain = {i \in DOMAIN st.objs : st.plists[st.objs[i].parent_slots] = <<>>}
    /\ overwritten = {}

(* Two objects: o (object 1), with or without a slot k holding x, with or  *)
(* without x as a parent given at construction, and x (object 2).          *)
Init ==
    \E s \in {EmptyDict, [n \in {"k"} |-> 2]}, ps \in {<<>>, <<2>>} :
        Start(BuildHeap(<<Desc(s, ps, <<>>, None, None),
                          Desc(EmptyDict, <<>>, <<>>, "hi", None)>>))

Next ==
    \/ \E pv \in {None} \cup PrimValues, pf \in {None} \cup PrimFunctions : Construct(pv, pf)
    \/ \E o \in Objects : Copy(o)
    \/ \E o \in Objects, name \in Names, x \in Objects : AssignSlot(o, name, x)
    \/ \E o \in Objects, name \in Names : MakeParent(o, name)
    \/ \E o \in Objects, name \in Names, x \in Objects : AssignParentSlot(o, name, x)

Spec == Init /\ [][Next]_vars

(* ---- object graphs for the lookup ------------------------------------- *)
Nodes == 1 .. NumNodes

(* The host's parent declarations, in the order it made them: <<a, b>>     *)
(* appends b to a's parent_slots.  Each declaration is made on node 1 or   *)
(* on a node already declared a parent, so every parent list is one a      *)
(* lookup from node 1 can come to; and the nodes are numbered in the order *)
(* in which they are first declared a parent, which leaves one graph of    *)
(* each shape.                                                             *)
Known(es) == {1} \cup {es[i][2] : i \in DOMAIN es}

Declarations(es) ==
    {Append(es, <<a, b>>) :
        a \in Known(es),
        b \in {x \in Nodes : x <= Cardinality(Known(es)) + 1}}

RECURSIVE EdgeSeqsOf(_)
EdgeSeqsOf(n) ==
    IF n = 0 THEN {<<>>}
    ELSE UNION {Declarations(es) : es \in EdgeSeqsOf(n - 1)}

EdgeSeqs == UNION {EdgeSeqsOf(n) : n \in 0 .. MaxEdges}

EdgeTargets(es, i) ==
    LET sel == SelectSeq(es, LAMBDA e : e[1] = i)
    IN  [j \in 1 .. Len(sel) |-> sel[j][2]]

(* The Object a holder i keeps in its slot k: another node, and a          *)
(* different one for each holder.                                          *)
KValue(i) == (i % NumNodes) + 1

(* NumNodes plain objects, any of them holding a slot k (reachable from    *)
(* node 1 or not), wired by at most MaxEdges parent declarations (cycles   *)
(* and repeated parents included).                                         *)
InitGraph ==
    \E es \in EdgeSeqs, hs \in SUBSET Nodes :
        Start(BuildHeap([i \in Nodes |->
            Desc(IF i \in hs THEN [n \in {"k"} |-> KValue(i)] ELSE EmptyDict,
                 EdgeTargets(es, i), <<>>, None, None)]))

(* The receiver of the calls is node 1, the node the graphs are wired      *)
(* from, and the name is k, which any or none of the nodes has; the        *)
(* argument Object plays no part in the lookup.                            *)
NextLookup ==
    \/ SendMessage(1, "k")
    \/ SendMessageWithParameters(1, "k", NumNodes)

SpecLookup == InitGraph /\ [][NextLookup]_vars

(* ---- objects for the evaluation --------------------------------------- *)
(* The scripts the host gives an object.                                   *)
Scripts == {<<>>, <<"k">>, <<"k", "parameter">>, <<"parameter", "k">>}

(* What the Object of a slot can be: a plain object, a payload, a          *)
(* function, a script, or a script with a function and a payload.          *)
Modes ==
    {Desc(EmptyDict, <<>>, <<>>, None, None),
     Desc(EmptyDict, <<>>, <<>>, "hi", None),
     Desc(EmptyDict, <<>>, <<>>, None, "echo"),
     Desc(EmptyDict, <<>>, <<"k">>, None, None),
     Desc(EmptyDict, <<>>, <<"k">>, "hi", "echo")}

(* Three objects.  Object 1 has any script, payload and function, a slot k *)
(* holding object 2 or none and a slot parameter holding object 3 or none. *)
(* Object 2 is of any mode, with no slot, a slot k holding object 1 or a   *)
(* slot parameter holding object 1.  Object 3 is a plain payload.          *)
InitEval ==
    \E m1 \in Scripts, v1 \in {None, "0"}, f1 \in {None} \cup PrimFunctions,
       k1 \in {Nil, 2}, q1 \in {Nil, 3}, d2 \in Modes,
       s2 \in {EmptyDict, [n \in {"k"} |-> 1], [n \in {"parameter"} |-> 1]} :
        Start(BuildHeap(<<
            Desc([n \in {x \in Names : (x = "k" /\ k1 # Nil) \/ (x = "parameter" /\ q1 # Nil)}
                     |-> IF n = "k" THEN k1 ELSE q1],
                 <<>>, m1, v1, f1),
            [d2 EXCEPT !.slots = s2],
            Desc(EmptyDict, <<>>, <<>>, "hi", None)>>))

(* Any of the objects is evaluated; the sends are made to object 1, with   *)
(* object 3 as the argument.                                               *)
NextEval ==
    \/ \E o \in 1 .. 3 : Evaluate(o)
    \/ \E message \in Names : SendMessage(1, message)
    \/ \E message \in Names : SendMessageWithParameters(1, message, 3)

SpecEval == InitEval /\ [][NextEval]_vars

(* ======================================================================= *)
(* Properties                                                              *)
(* ======================================================================= *)
Mutators == {"assign_slot", "make_parent", "assign_parent_slot"}

(* One of a, b was made by copy() of the other.                            *)
CopyPair(a, b) == a # b /\ (origin[a] = b \/ origin[b] = a)

(* Every entry of o's parent_slots is the Object of some slot of o.        *)
ParentsInSlots(st, o) == Range(ParentsOf(st, o)) \subseteq Range(SlotsOf(st, o))

(* C4 - copy independence: an assign_slot, make_parent or                  *)
(* assign_parent_slot call on an object changes neither the slots (names   *)
(* and Objects) nor the parent_slots of an object it was copied from or of *)
(* a copy made of it.                                                      *)
CopyIndependence ==
    [][last'.op \in Mutators =>
        \A o \in Objects :
            CopyPair(o, last'.recv) =>
                /\ SlotsOf(Store', o) = SlotsOf(Store, o)
                /\ ParentsOf(Store', o) = ParentsOf(Store, o)]_vars

(* A copy has been mutated and its slots now differ from its original's.   *)
CopyIndependenceWitness ==
    /\ last.op \in Mutators
    /\ origin[last.recv] # Nil
    /\ SlotsOf(Store, last.recv) # SlotsOf(Store, origin[last.recv])

(* C5 - shared references: copy() makes exactly one new object; its slots  *)
(* have the names of the original's and hold the identical child Objects,  *)
(* its parent_slots and messages are the same sequences, its               *)
(* primitive_value and primitive_function are the original's, and no       *)
(* existing object or container is changed (no child is duplicated).       *)
SharedReferences ==
    [][last'.op = "copy" =>
        LET o == last'.recv
            c == last'.result
        IN  /\ c = Len(objs) + 1
            /\ Len(objs') = Len(objs) + 1
            /\ SlotsOf(Store', c) = SlotsOf(Store, o)
            /\ ParentsOf(Store', c) = ParentsOf(Store, o)
            /\ MessagesOf(Store', c) = MessagesOf(Store, o)
            /\ objs'[c].primitive_value = objs[o].primitive_value
            /\ objs'[c].primitive_function = objs[o].primitive_function
            /\ \A i \in Objects : objs'[i] = objs[i]
            /\ \A i \in DOMAIN dicts : dicts'[i] = dicts[i]
            /\ \A i \in DOMAIN plists : plists'[i] = plists[i]
            /\ \A i \in DOMAIN mlists : mlists'[i] = mlists[i]]_vars

(* An object with a slot and a parent has been copied.                     *)
SharedReferencesWitness ==
    /\ last.op = "copy"
    /\ DOMAIN SlotsOf(Store, last.recv) # {}
    /\ ParentsOf(Store, last.recv) # <<>>
    /\ SlotsOf(Store, last.result) = SlotsOf(Store, last.recv)

(* C7 - promotion failure: make_parent(name) fails with SlotNotFound       *)
(* exactly when name is not in the receiver's slots, the failed call       *)
(* leaves every object and container as it was, and assign_parent_slot     *)
(* never fails.                                                            *)
PromotionFailure ==
    [][/\ last'.op = "make_parent" =>
            /\ (last'.status = "SlotNotFound") <=>
                   (last'.name \notin DOMAIN SlotsOf(Store, last'.recv))
            /\ last'.status = "SlotNotFound" => Store' = Store
       /\ last'.op = "assign_parent_slot" => last'.status = "ok"]_vars

(* make_parent has failed on a name the receiver does not have.            *)
PromotionFailureWitness ==
    /\ last.op = "make_parent"
    /\ last.status = "SlotNotFound"
    /\ last.name \notin DOMAIN SlotsOf(Store, last.recv)

(* C9 as claimed - every entry of the parent_slots of an object made       *)
(* without parent_slots is the Object of some slot of that object, in      *)
(* every reachable state.                                                  *)
ParentAlwaysInSlots ==
    \A o \in bornPlain : ParentsInSlots(Store, o)

(* C9 amended - every entry of the parent_slots of an object made without  *)
(* parent_slots is the Object of some slot of that object as long as no    *)
(* assign_slot or assign_parent_slot call has replaced the Object of one   *)
(* of its existing slots by a different Object; and make_parent(name)      *)
(* leaves slots unchanged and appends slots[name] at the end of            *)
(* parent_slots.                                                           *)
PromotedStayInSlots ==
    /\ [](\A o \in bornPlain \ overwritten : ParentsInSlots(Store, o))
    /\ [][last'.op = "make_parent" /\ last'.status = "ok" =>
            /\ dicts' = dicts
            /\ ParentsOf(Store', last'.recv) =
                   Append(ParentsOf(Store, last'.recv),
                          SlotsOf(Store, last'.recv)[last'.name])]_vars

(* A slot of an object made without parent_slots has been promoted, and    *)
(* none of the object's slots has been replaced.                           *)
PromotedStayInSlotsWitness ==
    /\ last.op = "make_parent"
    /\ last.status = "ok"
    /\ last.recv \in bornPlain \ overwritten
    /\ ParentsOf(Store, last.recv) # <<>>

(* ---- the lookup -------------------------------------------------------- *)
SendOps == {"send_message", "send_message_with_parameters"}

(* s without the members of seen and without repeats (first one kept).     *)
RECURSIVE Dedup(_, _)
Dedup(s, seen) ==
    IF s = <<>> THEN <<>>
    ELSE IF Head(s) \in seen THEN Dedup(Tail(s), seen)
    ELSE <<Head(s)>> \o Dedup(Tail(s), seen \cup {Head(s)})

(* The parent_slots of the objects of level, one list after the other.     *)
RECURSIVE ParentsOfLevel(_, _)
ParentsOfLevel(st, level) ==
    IF level = <<>> THEN <<>>
    ELSE ParentsOf(st, Head(level)) \o ParentsOfLevel(st, Tail(level))

(* The objects at parent-distance d, d+1, ... from the receiver, level     *)
(* being those at distance d and seen those nearer: each level in the      *)
(* order of the level before it and, under one object, in the declaration  *)
(* order of its parents.                                                   *)
RECURSIVE BreadthFirstOrder(_, _, _)
BreadthFirstOrder(st, level, seen) ==
    IF level = <<>> THEN <<>>
    ELSE LET seen1 == seen \cup Range(level)
         IN  level \o BreadthFirstOrder(st, Dedup(ParentsOfLevel(st, level), seen1), seen1)

Min(S) == CHOOSE x \in S : \A y \in S : x <= y

NoRepeats(s) == \A i, j \in DOMAIN s : i # j => s[i] # s[j]

RECURSIVE ParentEntries(_, _)
ParentEntries(st, s) ==
    IF s = <<>> THEN 0 ELSE Len(ParentsOf(st, Head(s))) + ParentEntries(st, Tail(s))

(* C2 - the lookup of send_message and send_message_with_parameters visits *)
(* the objects in breadth-first order from the receiver (by parent         *)
(* distance, then by declaration order) up to the first one that has the   *)
(* name in its slots, and returns that object's slot; it finds nothing     *)
(* exactly when no object of that order has the name.                      *)
LookupIsBreadthFirst ==
    [][last'.op \in SendOps =>
        LET bf == BreadthFirstOrder(Store, <<last'.recv>>, {})
            hs == {i \in DOMAIN bf : last'.name \in DOMAIN SlotsOf(Store, bf[i])}
            lk == last'.lookup
        IN  IF hs = {}
            THEN lk.status = "absent" /\ lk.order = bf
            ELSE /\ lk.status = "found"
                 /\ lk.holder = bf[Min(hs)]
                 /\ lk.target = SlotsOf(Store, bf[Min(hs)])[last'.name]
                 /\ lk.order = SubSeq(bf, 1, Min(hs))]_vars

(* The receiver has parents <<P1, P2>>; neither it nor P1 has k, P1's      *)
(* parent G has k and P2 has k: the send of k found P2's Object, not G's.  *)
LookupIsBreadthFirstWitness ==
    \E P1, P2, G \in Objects :
        /\ Cardinality({last.recv, P1, P2, G}) = 4
        /\ last.op = "send_message"
        /\ last.name = "k"
        /\ ParentsOf(Store, last.recv) = <<P1, P2>>
        /\ ParentsOf(Store, P1) = <<G>>
        /\ "k" \notin DOMAIN SlotsOf(Store, last.recv)
        /\ "k" \notin DOMAIN SlotsOf(Store, P1)
        /\ "k" \in DOMAIN SlotsOf(Store, G)
        /\ "k" \in DOMAIN SlotsOf(Store, P2)
        /\ last.lookup.target = SlotsOf(Store, P2)["k"]
        /\ last.lookup.target # SlotsOf(Store, G)["k"]
        /\ last.result = SlotsOf(Store, P2)["k"]

(* The objects reachable from the objects of frontier through              *)
(* parent_slots.                                                           *)
RECURSIVE ReachableFrom(_, _, _)
ReachableFrom(st, frontier, seen) ==
    IF frontier \subseteq seen THEN seen
    ELSE ReachableFrom(st, UNION {Range(ParentsOf(st, o)) : o \in frontier},
                       seen \cup frontier)

(* C3 - the lookup ends on every graph, cyclic ones included: it takes     *)
(* each object past the visited test at most once, only objects reachable  *)
(* from the receiver, in at most one iteration for the receiver and one    *)
(* for each parent entry of the objects it visited; and when no reachable  *)
(* object has the name, the send ends with MessageNotFound and changes     *)
(* nothing.                                                                *)
LookupTerminates ==
    [][last'.op \in SendOps =>
        LET reach == ReachableFrom(Store, {last'.recv}, {})
            lk == last'.lookup
        IN  /\ lk.status \in {"found", "absent"}
            /\ NoRepeats(lk.order)
            /\ Range(lk.order) \subseteq reach
            /\ lk.iters <= 1 + ParentEntries(Store, lk.order)
            /\ (\A o \in reach : last'.name \notin DOMAIN SlotsOf(Store, o)) =>
                   /\ last'.status = "MessageNotFound"
                   /\ Store' = Store]_vars

(* The receiver and another object are parents of each other, neither has  *)
(* the name, and the send ended with MessageNotFound after visiting both.  *)
LookupTerminatesWitness ==
    \E b \in Objects :
        /\ b # last.recv
        /\ last.op \in SendOps
        /\ last.status = "MessageNotFound"
        /\ b \in Range(ParentsOf(Store, last.recv))
        /\ last.recv \in Range(ParentsOf(Store, b))
        /\ Range(last.lookup.order) = {last.recv, b}

(* ---- evaluation -------------------------------------------------------- *)
(* What the evaluate() of the call itself did, without what the            *)
(* evaluations nested in it did.                                           *)
TopLevel(log) == SelectSeq(log, LAMBDA e : e.d = 0)

(* Every object and container the call found is as it was.                 *)
Preserved ==
    /\ \A i \in DOMAIN objs : objs'[i] = objs[i]
    /\ \A i \in DOMAIN dicts : dicts'[i] = dicts[i]
    /\ \A i \in DOMAIN plists : plists'[i] = plists[i]
    /\ \A i \in DOMAIN mlists : mlists'[i] = mlists[i]

(* Object c of st1 has the fields of object o of st.                       *)
SameFields(st1, c, st, o) ==
    /\ SlotsOf(st1, c) = SlotsOf(st, o)
    /\ ParentsOf(st1, c) = ParentsOf(st, o)
    /\ MessagesOf(st1, c) = MessagesOf(st, o)
    /\ st1.objs[c].primitive_value = st.objs[o].primitive_value
    /\ st1.objs[c].primitive_function = st.objs[o].primitive_function

(* C1 - evaluate() follows messages > primitive_function >                 *)
(* primitive_value > self.  With messages, it copies the receiver and      *)
(* sends the first message to the copy, and calls no function.  Else with  *)
(* a primitive_function, it calls the function on one new copy of the      *)
(* receiver and returns what the function returns (echo: the copy's        *)
(* parameter slot, or KeyError).  Else with a primitive_value, it returns  *)
(* one new object with the receiver's fields.  Else it returns the         *)
(* receiver and changes nothing.                                           *)
EvaluatePrecedence ==
    [][last'.op = "evaluate" =>
        LET o == last'.recv
            ob == objs[o]
            new == Len(objs) + 1
            top == TopLevel(last'.log)
        IN  IF MessagesOf(Store, o) # <<>>
            THEN /\ Len(top) >= 2
                 /\ top[1] = Ev("copy", 0, o, new, "")
                 /\ top[2] = Ev("send", 0, new, Nil, MessagesOf(Store, o)[1])
                 /\ \A i \in DOMAIN top : top[i].ev # "call"
            ELSE IF ob.primitive_function # None
            THEN /\ last'.log = <<Ev("copy", 0, o, new, ""),
                                  Ev("call", 0, new, Nil, ob.primitive_function)>>
                 /\ Len(objs') = new
                 /\ SameFields(Store', new, Store, o)
                 /\ IF "parameter" \in DOMAIN SlotsOf(Store, o)
                    THEN last'.status = "ok" /\ last'.result = SlotsOf(Store, o)["parameter"]
                    ELSE last'.status = "KeyError"
            ELSE IF ob.primitive_value # None
            THEN /\ last'.status = "ok"
                 /\ last'.result = new
                 /\ Len(objs') = new
                 /\ SameFields(Store', new, Store, o)
                 /\ last'.log = <<Ev("copy", 0, o, new, "")>>
            ELSE /\ last'.status = "ok"
                 /\ last'.result = o
                 /\ last'.log = <<>>
                 /\ Store' = Store]_vars

(* An object with messages, a primitive_function and a primitive_value     *)
(* has been evaluated, and its messages were run.                          *)
EvaluatePrecedenceWitness ==
    /\ last.op = "evaluate"
    /\ last.status = "ok"
    /\ MessagesOf(Store, last.recv) # <<>>
    /\ objs[last.recv].primitive_function # None
    /\ objs[last.recv].primitive_value # None
    /\ \E i \in DOMAIN last.log : last.log[i].ev = "send" /\ last.log[i].d = 0

(* C6 - parameter passing: when the lookup finds T,                        *)
(* send_message_with_parameters(name, p) copies T to one new object, whose *)
(* slots are T's with "parameter" set to p and whose other fields are T's, *)
(* and evaluates that copy; a T without messages whose function is echo    *)
(* yields p itself; T and every other object the call found are unchanged. *)
ParameterPassing ==
    [][last'.op = "send_message_with_parameters" /\ last'.lookup.status = "found" =>
        LET T == last'.lookup.target
            p == last'.arg
            c == Len(objs) + 1
        IN  /\ last'.log # <<>>
            /\ last'.log[1] = Ev("copy", 0, T, c, "")
            /\ DOMAIN SlotsOf(Store', c) = DOMAIN SlotsOf(Store, T) \cup {"parameter"}
            /\ SlotsOf(Store', c)["parameter"] = p
            /\ \A n \in DOMAIN SlotsOf(Store, T) \ {"parameter"} :
                   SlotsOf(Store', c)[n] = SlotsOf(Store, T)[n]
            /\ ParentsOf(Store', c) = ParentsOf(Store, T)
            /\ MessagesOf(Store', c) = MessagesOf(Store, T)
            /\ objs'[c].primitive_value = objs[T].primitive_value
            /\ objs'[c].primitive_function = objs[T].primitive_function
            /\ (MessagesOf(Store, T) = <<>> /\ objs[T].primitive_function = "echo") =>
                   /\ last'.status = "ok"
                   /\ last'.result = p
                   /\ Tail(last'.log) = <<Ev("copy", 0, c, c + 1, ""),
                                           Ev("call", 0, c + 1, Nil, "echo")>>
            /\ Preserved]_vars

(* The Object found is an echo function that had a "parameter" slot of its *)
(* own: the call returned the argument, and the slot of the Object found   *)
(* still holds what it held.                                               *)
ParameterPassingWitness ==
    /\ last.op = "send_message_with_parameters"
    /\ last.status = "ok"
    /\ last.lookup.status = "found"
    /\ objs[last.lookup.target].primitive_function = "echo"
    /\ MessagesOf(Store, last.lookup.target) = <<>>
    /\ "parameter" \in DOMAIN SlotsOf(Store, last.lookup.target)
    /\ SlotsOf(Store, last.lookup.target)["parameter"] # last.arg
    /\ last.result = last.arg

(* No object reachable from r through parent_slots has the name.           *)
Unreachable(st, r, name) ==
    \A o \in ReachableFrom(st, {r}, {}) : name \notin DOMAIN SlotsOf(st, o)

(* The evaluation did not run out of stack and no primitive function       *)
(* failed in it.                                                           *)
Terminated == last.status \notin {"RecursionError", "KeyError"}

(* C8 as claimed - an evaluate() that terminates, no primitive function    *)
(* failing, returns a result and never ends with an error.                 *)
EvaluateNeverFails ==
    (last.op = "evaluate" /\ Terminated) => last.status = "ok"

(* C8 amended - an evaluate() that terminates, no primitive function       *)
(* failing, returns a result when the receiver has no messages; with       *)
(* messages it ends with MessageNotFound exactly when the last send made   *)
(* in it, by its own script or a script nested in it, was of a name that   *)
(* no object reachable from the send's receiver has, and returns a result  *)
(* otherwise; it never ends with SlotNotFound.                             *)
EvaluateFailsOnlyBySend ==
    (last.op = "evaluate" /\ Terminated) =>
        LET n == Len(last.log)
            failedSend == /\ n > 0
                          /\ last.log[n].ev = "send"
                          /\ Unreachable(Store, last.log[n].obj, last.log[n].name)
        IN  /\ last.status \in {"ok", "MessageNotFound"}
            /\ (last.status = "MessageNotFound") <=> failedSend
            /\ MessagesOf(Store, last.recv) = <<>> => last.status = "ok"

(* An object whose script names a slot it cannot find has been evaluated   *)
(* and the evaluation ended with MessageNotFound.                          *)
EvaluateFailsOnlyBySendWitness ==
    /\ last.op = "evaluate"
    /\ last.status = "MessageNotFound"
    /\ MessagesOf(Store, last.recv) # <<>>
    /\ Unreachable(Store, last.recv, MessagesOf(Store, last.recv)[1])

(* The Object a send of name to r evaluates: the slot of the first object  *)
(* in breadth-first order that has the name.                               *)
FirstTarget(st, r, name) ==
    LET bf == BreadthFirstOrder(st, <<r>>, {})
        hs == {i \in DOMAIN bf : name \in DOMAIN SlotsOf(st, bf[i])}
    IN  SlotsOf(st, bf[Min(hs)])[name]

(* C10 - scripted evaluation: evaluate() of an object with messages        *)
(* m1..mn makes one copy of the receiver and sends m1, m2, ... in that     *)
(* order to that copy, never to the receiver: all n when it returns, up to *)
(* the send that raised otherwise.  It returns the result of the send of   *)
(* mn: the Object found when that is a plain object, a new copy of it when *)
(* it is a payload, its "parameter" slot when it is an echo function.      *)
(* Every object and container the call found, the receiver's included, is  *)
(* unchanged.                                                              *)
ScriptedEvaluation ==
    [][(last'.op = "evaluate" /\ MessagesOf(Store, last'.recv) # <<>>) =>
        LET o == last'.recv
            msgs == MessagesOf(Store, o)
            c == Len(objs) + 1
            log == last'.log
            top == TopLevel(log)
            sent == Len(top) - 1
        IN  /\ Len(top) >= 2
            /\ top[1] = Ev("copy", 0, o, c, "")
            /\ sent <= Len(msgs)
            /\ \A i \in 1 .. sent : top[i + 1] = Ev("send", 0, c, Nil, msgs[i])
            /\ last'.status = "ok" => sent = Len(msgs)
            /\ SameFields(Store', c, Store, o)
            /\ Preserved
            /\ last'.status = "ok" =>
                   LET T == FirstTarget(Store, o, msgs[Len(msgs)])
                       e == log[Len(log)]
                   IN  IF MessagesOf(Store, T) # <<>> THEN TRUE
                       ELSE IF objs[T].primitive_function # None
                       THEN /\ e.ev = "call" /\ e.d = 1
                            /\ last'.result = SlotsOf(Store, T)["parameter"]
                       ELSE IF objs[T].primitive_value # None
                       THEN /\ e = Ev("copy", 1, T, last'.result, "")
                            /\ last'.result = Len(objs')
                            /\ SameFields(Store', last'.result, Store, T)
                       ELSE /\ e = Ev("send", 0, c, Nil, msgs[Len(msgs)])
                            /\ last'.result = T]_vars

(* A script of two messages that find different Objects has been           *)
(* evaluated: both were sent to the copy, and the result is that of the    *)
(* second, a plain Object.                                                 *)
ScriptedEvaluationWitness ==
    LET o == last.recv
        msgs == MessagesOf(Store, o)
        top == TopLevel(last.log)
    IN  /\ last.op = "evaluate"
        /\ last.status = "ok"
        /\ Len(msgs) = 2
        /\ Len(top) = 3
        /\ top[2].obj # o
        /\ top[3].obj = top[2].obj
        /\ FirstTarget(Store, o, msgs[1]) # FirstTarget(Store, o, msgs[2])
        /\ last.result = FirstTarget(Store, o, msgs[2])

====
